---------------------------- MODULE Spec2Model ----------------------------
(***************************************************************************)
(* A* search over the TSP state space of tsp_astar_solution.py.            *)
(*                                                                         *)
(* TSPProblem (cities, distances, is_goal, actions, result, cost,          *)
(* heuristic) is translated from the source.  The search engine that       *)
(* main() calls, astar(problem), is imported from a library and is not     *)
(* part of the source tree; it is modelled from section 4.2 of the         *)
(* specification (Frontier, Explored, the dequeue/expand loop).            *)
(*                                                                         *)
(* Cities are the integers 1..MaxCities.  A state is a sequence of cities  *)
(* (the Python tuple).  distances is a function on the set of (origin,     *)
(* destination) pairs that the dict of dicts holds; a pair outside its     *)
(* domain is a lookup that raises KeyError.                                *)
(***************************************************************************)
EXTENDS Integers, Sequences, FiniteSets, TLC

\* Largest number of cities in a city list (and of city identifiers).
MaxCities == 3

\* Ordinary distances range over 0..MaxDist.
MaxDist == 1

\* Value standing for the KeyError raised by distances[a][b] on an absent key.
\* All real distances of the model are >= 0.
KeyError == -1

VARIABLES
    cities,     \* self.cities: the city list
    distances,  \* self.distances: (origin, destination) -> cost
    nodes,      \* every search node created so far, in creation order
    frontier,   \* the open list: node numbers in insertion order
    explored,   \* the closed list: state -> best known g
    status,     \* "ready" | "running" | "found" | "exhausted" | "error"
    current,    \* node number last removed from the frontier (0: none)
    returned,   \* node number returned by the search (0: none)
    call        \* a direct call of result(state, action), or NoCall

vars == <<cities, distances, nodes, frontier, explored, status, current, returned, call>>

searchVars == <<cities, distances, nodes, frontier, explored, status, current, returned>>

-----------------------------------------------------------------------------
(* Helpers *)

Range(s) == {s[i] : i \in 1..Len(s)}

Last(s) == s[Len(s)]

Min(S) == CHOOSE x \in S : \A y \in S : x <= y

\* The sub-sequence of s whose elements satisfy membership in keep.
RECURSIVE Filter(_, _)
Filter(s, keep) ==
    IF s = <<>> THEN <<>>
    ELSE IF Head(s) \in keep
         THEN <<Head(s)>> \o Filter(Tail(s), keep)
         ELSE Filter(Tail(s), keep)

-----------------------------------------------------------------------------
(* TSPProblem *)

\* Variant of Lookup: self.distances[a].get(b, 0), an absent entry read as 0.
Lookup_Default(a, b) ==
    IF <<a, b>> \in DOMAIN distances THEN distances[<<a, b>>] ELSE 0

\* self.distances[a][b]
Lookup(a, b) ==
    IF <<a, b>> \in DOMAIN distances THEN distances[<<a, b>>] ELSE KeyError

\* self.initial_state = (cities[0],)
initial_state == <<cities[1]>>

\* Variant of is_goal: off by one, len(state) >= len(self.cities) - 1.
is_goal_OffByOne(state) == Len(state) >= Len(cities) - 1

\* len(state) == len(self.cities)
is_goal(state) == Len(state) = Len(cities)

\* Variant of actions: only the current city is excluded.
actions_ExceptCurrent(state) == Filter(cities, Range(cities) \ {Last(state)})

\* [city for city in self.cities if city not in state]
actions(state) == Filter(cities, Range(cities) \ Range(state))

\* Variant of result: the visited cities after the start are kept in sorted
\* order, so the state forgets the order of the visits.
RECURSIVE SortedSeq(_)
SortedSeq(S) == IF S = {} THEN <<>> ELSE <<Min(S)>> \o SortedSeq(S \ {Min(S)})

result_Sorted(state, action) ==
    <<state[1]>> \o SortedSeq(Range(Tail(state)) \cup {action})

\* state + (action,)
result(state, action) == Append(state, action)

\* Variant of cost: indices swapped, self.distances[action][state[-1]].
cost_Reversed(state, action, next_state) == Lookup(action, Last(state))

\* Variant of cost: measured from the first city, self.distances[state[0]][action].
cost_FromStart(state, action, next_state) == Lookup(state[1], action)

\* self.distances[state[-1]][action]
cost(state, action, next_state) == Lookup(Last(state), action)

\* Variant of heuristic: the goal branch returns 0, without the return leg.
heuristic_NoReturnLeg(state) ==
    IF is_goal(state)
    THEN 0
    ELSE LET current_city == Last(state)
             unvisited == actions(state)
             ds == {Lookup(current_city, unvisited[i]) : i \in 1..Len(unvisited)}
         IN  IF unvisited = <<>>
             THEN Lookup(current_city, state[1])
             ELSE IF KeyError \in ds THEN KeyError ELSE Min(ds)

\* The goal branch and the "nothing unvisited" branch both return the cost of
\* going back to the start; otherwise the minimum over the unvisited cities,
\* where any absent entry raises KeyError while min() consumes the generator.
heuristic(state) ==
    IF is_goal(state)
    THEN Lookup(Last(state), state[1])
    ELSE LET current_city == Last(state)
             unvisited == actions(state)
             ds == {Lookup(current_city, unvisited[i]) : i \in 1..Len(unvisited)}
         IN  IF unvisited = <<>>
             THEN Lookup(current_city, state[1])
             ELSE IF KeyError \in ds THEN KeyError ELSE Min(ds)

-----------------------------------------------------------------------------
(* Search engine (specification section 4.2) *)

NoNode == 0

Node(state, parent, action, g, h) ==
    [state |-> state, parent |-> parent, action |-> action, g |-> g, h |-> h]

\* f = g + h of node number n in the node table ns
F(ns, n) == ns[n].g + ns[n].h

\* Variant of PopMin: minimum f, the latest inserted among ties.
PopMin_Lifo(ns, fr) ==
    LET i == CHOOSE i \in 1..Len(fr) :
                \A j \in 1..Len(fr) :
                    \/ F(ns, fr[i]) < F(ns, fr[j])
                    \/ F(ns, fr[i]) = F(ns, fr[j]) /\ i >= j
    IN  fr[i]

\* The frontier entry to dequeue: minimum f, the earliest inserted among ties.
PopMin(ns, fr) ==
    LET i == CHOOSE i \in 1..Len(fr) :
                \A j \in 1..Len(fr) :
                    \/ F(ns, fr[i]) < F(ns, fr[j])
                    \/ F(ns, fr[i]) = F(ns, fr[j]) /\ i <= j
    IN  fr[i]

\* fr without node number n
Remove(fr, n) == Filter(fr, Range(fr) \ {n})

\* Step 5: the loop over actions(N.state).  acc carries the node table, the
\* frontier, Explored and whether a lookup has raised; the loop stops at the
\* first raise, keeping the children inserted before it.
RECURSIVE Expand(_, _, _)
Expand(n, acts, acc) ==
    IF acts = <<>> \/ acc.err THEN acc
    ELSE LET A == Head(acts)
             N == acc.nodes[n]
             next_state == result(N.state, A)
             step_cost == cost(N.state, A, next_state)
             tentative_g == N.g + step_cost
         IN  IF step_cost = KeyError THEN [acc EXCEPT !.err = TRUE]
             ELSE IF \/ next_state \notin DOMAIN acc.explored
                     \/ tentative_g < acc.explored[next_state]
                  THEN LET h == heuristic(next_state)
                       IN  IF h = KeyError THEN [acc EXCEPT !.err = TRUE]
                           ELSE Expand(n, Tail(acts),
                                  [nodes    |-> Append(acc.nodes, Node(next_state, n, A, tentative_g, h)),
                                   frontier |-> Append(acc.frontier, Len(acc.nodes) + 1),
                                   explored |-> (next_state :> tentative_g) @@ acc.explored,
                                   err      |-> FALSE])
                  ELSE Expand(n, Tail(acts), acc)

-----------------------------------------------------------------------------
(* Problem instances *)

DistVals == (0..MaxDist) \cup {100}

CityLists == UNION {[1..n -> 1..MaxCities] : n \in 1..MaxCities}

OffDiagonal(cs) == {p \in cs \X cs : p[1] # p[2]}

Diagonal(cs) == {<<c, c>> : c \in cs}

NoCall == [op |-> "none"]

\* TSPProblem(cities, distances) has been constructed; astar has not started.
\* Any non-empty city list; any set of off-diagonal entries over the listed
\* cities with any values; the diagonal either absent (as in main's matrix)
\* or all zero.
Init ==
    /\ cities \in CityLists
    /\ \E D \in SUBSET OffDiagonal(Range(cities)), diag \in BOOLEAN :
         \E w \in [D -> DistVals] :
            distances = w @@ [p \in (IF diag THEN Diagonal(Range(cities)) ELSE {}) |-> 0]
    /\ nodes = <<>>
    /\ frontier = <<>>
    /\ explored = <<>>
    /\ status = "ready"
    /\ current = NoNode
    /\ returned = NoNode
    /\ call = NoCall

-----------------------------------------------------------------------------
(* Actions *)

\* Step 1: create the root node and insert it.
Start ==
    /\ status = "ready"
    /\ LET h == heuristic(initial_state)
       IN  IF h = KeyError
           THEN /\ status' = "error"
                /\ UNCHANGED <<nodes, frontier, explored>>
           ELSE /\ nodes' = <<Node(initial_state, NoNode, NoNode, 0, h)>>
                /\ frontier' = <<1>>
                /\ explored' = (initial_state :> 0)
                /\ status' = "running"
    /\ UNCHANGED <<cities, distances, current, returned, call>>

\* Step 2: the frontier is empty.
Exhaust ==
    /\ status = "running"
    /\ frontier = <<>>
    /\ status' = "exhausted"
    /\ UNCHANGED <<cities, distances, nodes, frontier, explored, current, returned, call>>

\* Steps 3-4: the dequeued node is a goal.
ReturnGoal ==
    /\ status = "running"
    /\ frontier # <<>>
    /\ LET n == PopMin(nodes, frontier)
       IN  /\ is_goal(nodes[n].state)
           /\ current' = n
           /\ returned' = n
           /\ frontier' = Remove(frontier, n)
    /\ status' = "found"
    /\ UNCHANGED <<cities, distances, nodes, explored, call>>

\* Steps 3 and 5: the dequeued node is not a goal and is expanded.
ExpandNode ==
    /\ status = "running"
    /\ frontier # <<>>
    /\ LET n == PopMin(nodes, frontier)
           acc == Expand(n, actions(nodes[n].state),
                         [nodes |-> nodes, frontier |-> Remove(frontier, n),
                          explored |-> explored, err |-> FALSE])
       IN  /\ ~is_goal(nodes[n].state)
           /\ current' = n
           /\ nodes' = acc.nodes
           /\ frontier' = acc.frontier
           /\ explored' = acc.explored
           /\ status' = IF acc.err THEN "error" ELSE "running"
    /\ UNCHANGED <<cities, distances, returned, call>>

Next == Start \/ Exhaust \/ ReturnGoal \/ ExpandNode

Spec == Init /\ [][Next]_vars

-----------------------------------------------------------------------------
(* Direct calls of TSPProblem.result *)

\* A caller is about to apply result to any state and any city.
CallInit ==
    /\ cities = [i \in 1..MaxCities |-> i]
    /\ distances = <<>>
    /\ nodes = <<>>
    /\ frontier = <<>>
    /\ explored = <<>>
    /\ status = "ready"
    /\ current = NoNode
    /\ returned = NoNode
    /\ call \in [op : {"result"}, state : CityLists, action : 1..MaxCities,
                 done : {FALSE}, raised : {FALSE}, value : {<<>>}]

\* result(state, action) returns; the method has no raising path.
CallResult ==
    /\ call.op = "result"
    /\ ~call.done
    /\ call' = [call EXCEPT !.done = TRUE,
                            !.raised = FALSE,
                            !.value = result(call.state, call.action)]
    /\ UNCHANGED searchVars

CallNext == CallResult

CallSpec == CallInit /\ [][CallNext]_vars

-----------------------------------------------------------------------------
(* Properties *)

NoDuplicates(s) == \A i, j \in 1..Len(s) : i # j => s[i] # s[j]

UniqueCities == NoDuplicates(cities)

\* Every ordered pair of distinct listed cities has an entry.
Complete == OffDiagonal(Range(cities)) \subseteq DOMAIN distances

NodeIds == 1..Len(nodes)

\* The node numbers from node n up to the root, n first.
RECURSIVE Chain(_)
Chain(n) == IF n = NoNode THEN <<>> ELSE <<n>> \o Chain(nodes[n].parent)

\* distances[last city of the parent's state][action] for a non-root node
StepCost(n) == Lookup(Last(nodes[nodes[n].parent].state), nodes[n].action)

RECURSIVE SumSteps(_)
SumSteps(ch) ==
    IF ch = <<>> THEN 0
    ELSE (IF nodes[Head(ch)].parent = NoNode THEN 0 ELSE StepCost(Head(ch)))
         + SumSteps(Tail(ch))

\* C1: over a unique city list, a node's state passes is_goal exactly when it
\* contains every listed city exactly once, and the returned node holds a
\* permutation of all cities that begins with the first city of the list.
GoalIffAllCities ==
    UniqueCities =>
        /\ \A n \in NodeIds :
              is_goal(nodes[n].state) <=>
                  (Range(nodes[n].state) = Range(cities) /\ NoDuplicates(nodes[n].state))
        /\ status = "found" =>
              /\ Range(nodes[returned].state) = Range(cities)
              /\ NoDuplicates(nodes[returned].state)
              /\ Len(nodes[returned].state) = Len(cities)
              /\ nodes[returned].state[1] = cities[1]

GoalReturned ==
    /\ UniqueCities
    /\ Len(cities) >= 3
    /\ status = "found"
    /\ \E n \in NodeIds : ~is_goal(nodes[n].state)

\* C2 as stated: along the path from the root to the returned node g strictly
\* increases at each step by exactly distances[last city][action], the root
\* has g = 0 and the returned g is the sum of the step costs.
PathCostStrictlyIncreasing ==
    (Complete /\ status = "found") =>
        LET ch == Chain(returned)
        IN  /\ nodes[ch[Len(ch)]].g = 0
            /\ \A k \in 1..Len(ch) :
                  nodes[ch[k]].parent # NoNode =>
                      /\ nodes[ch[k]].g = nodes[nodes[ch[k]].parent].g + StepCost(ch[k])
                      /\ nodes[ch[k]].g > nodes[nodes[ch[k]].parent].g
            /\ nodes[returned].g = SumSteps(ch)

\* C2 amended: g grows at each step by exactly distances[last city][action],
\* so it never decreases and strictly increases on every step of positive
\* cost; the root has g = 0 and the returned g is the sum of the step costs.
PathCostAccounting ==
    (Complete /\ status = "found") =>
        LET ch == Chain(returned)
        IN  /\ nodes[ch[Len(ch)]].g = 0
            /\ nodes[ch[Len(ch)]].parent = NoNode
            /\ \A k \in 1..Len(ch) :
                  nodes[ch[k]].parent # NoNode =>
                      /\ nodes[ch[k]].g = nodes[nodes[ch[k]].parent].g + StepCost(ch[k])
                      /\ nodes[ch[k]].g >= nodes[nodes[ch[k]].parent].g
                      /\ StepCost(ch[k]) > 0 => nodes[ch[k]].g > nodes[nodes[ch[k]].parent].g
            /\ nodes[returned].g = SumSteps(ch)

PathWithZeroAndPositiveStep ==
    /\ Complete
    /\ status = "found"
    /\ \E a, b \in Range(Chain(returned)) :
          /\ nodes[a].parent # NoNode /\ StepCost(a) = 0
          /\ nodes[b].parent # NoNode /\ StepCost(b) > 0

\* C3: over a unique city list no node's state, and no state in its ancestor
\* chain, contains a city twice; each non-root state is the parent's state
\* with one city appended that the parent's state did not contain.
NoRevisit ==
    UniqueCities =>
        \A n \in NodeIds :
            /\ \A a \in Range(Chain(n)) : NoDuplicates(nodes[a].state)
            /\ nodes[n].parent # NoNode =>
                  /\ nodes[n].state = Append(nodes[nodes[n].parent].state, nodes[n].action)
                  /\ nodes[n].action \notin Range(nodes[nodes[n].parent].state)

DeepChainBuilt ==
    /\ UniqueCities
    /\ \E n \in NodeIds : Len(Chain(n)) >= 3

\* C4: the node removed from the frontier has minimum f = g + h among the
\* frontier's nodes, and every other frontier node with the same f was
\* inserted (created) after it.
DequeueMinFifo ==
    [][(status = "running" /\ frontier # <<>>) =>
          /\ current' \in Range(frontier)
          /\ \A m \in Range(frontier) :
                /\ F(nodes, current') <= F(nodes, m)
                /\ (F(nodes, current') = F(nodes, m) /\ m # current') => current' < m
      ]_vars

\* A node was dequeued while another node of equal f stayed on the frontier.
TieDequeued ==
    /\ current # NoNode
    /\ \E k \in 1..Len(frontier) :
          /\ nodes[frontier[k]].parent # current
          /\ F(nodes, frontier[k]) = F(nodes, current)

\* A = 1, B = 2, C = 3 with A->B = B->A = B->C = C->B = 1, A->C = C->A = 100.
ScenarioC ==
    /\ cities = <<1, 2, 3>>
    /\ distances = (<<1, 2>> :> 1) @@ (<<2, 1>> :> 1) @@ (<<2, 3>> :> 1)
                   @@ (<<3, 2>> :> 1) @@ (<<1, 3>> :> 100) @@ (<<3, 1>> :> 100)

\* C5: on scenario C the search returns the node (A, B, C) with cost 2.
ScenarioCPrefersCheapPath ==
    (ScenarioC /\ status \notin {"ready", "running"}) =>
        /\ status = "found"
        /\ nodes[returned].state = <<1, 2, 3>>
        /\ nodes[returned].g = 2

ScenarioCSolved == ScenarioC /\ status = "found"

\* C6: result applied to a city already present in the state fails with a
\* precondition violation instead of returning a state.
ResultRejectsVisited ==
    (call.op = "result" /\ call.done /\ call.action \in Range(call.state)) =>
        call.raised

\* The matrix holds no entry for any transition out of the start city.
NoStartEntries == \A c \in 1..MaxCities : <<cities[1], c>> \notin DOMAIN distances

\* C7: with two or more cities and no entry for any transition out of the
\* start city, the run raises at the missing lookup: it creates no node,
\* never runs on with a substituted cost, never ends exhausted or found.
MissingStartRowRaises ==
    (Len(cities) >= 2 /\ NoStartEntries) =>
        /\ status \in {"ready", "error"}
        /\ nodes = <<>>
        /\ frontier = <<>>

MissingStartRowRaised ==
    /\ Len(cities) >= 2
    /\ NoStartEntries
    /\ status = "error"

Tours ==
    {p \in [1..Len(cities) -> Range(cities)] : NoDuplicates(p) /\ p[1] = cities[1]}

RECURSIVE PathCost(_)
PathCost(p) ==
    IF Len(p) <= 1 THEN 0 ELSE Lookup(p[1], p[2]) + PathCost(Tail(p))

TourCost(p) == PathCost(p) + Lookup(Last(p), p[1])

\* C8: over a unique city list and a complete matrix, the returned node's
\* closed-tour cost g + distances[last][start] is minimal among all orderings
\* of the cities that start with the first city.
ReturnedTourIsCheapest ==
    (UniqueCities /\ Complete /\ status = "found") =>
        \A p \in Tours :
            nodes[returned].g + Lookup(Last(nodes[returned].state), cities[1]) <= TourCost(p)

CheaperTourChosen ==
    /\ UniqueCities
    /\ Complete
    /\ status = "found"
    /\ \E p \in Tours : TourCost(nodes[returned].state) < TourCost(p)
    /\ \E p \in Tours : PathCost(p) < nodes[returned].g

\* C9: over a non-empty unique city list and a complete matrix the run can
\* only end by returning a goal node: never exhausted, never by an error.
SearchEndsWithGoal ==
    (UniqueCities /\ Complete) => status \notin {"exhausted", "error"}

\* Node n was dequeued and its expansion loop ran to its end.
Expanded(n) ==
    /\ n \notin Range(frontier)
    /\ n # returned
    /\ ~(status = "error" /\ n = current)

\* C10: over a unique city list no two nodes hold the same state, and every
\* child of every expanded node was created and inserted: the Explored test
\* never withheld one.
NoStateRediscovered ==
    UniqueCities =>
        /\ \A m, n \in NodeIds : m # n => nodes[m].state # nodes[n].state
        /\ DOMAIN explored = {nodes[n].state : n \in NodeIds}
        /\ \A n \in NodeIds : explored[nodes[n].state] = nodes[n].g
        /\ \A n \in NodeIds :
              Expanded(n) =>
                  \A i \in 1..Len(actions(nodes[n].state)) :
                      \E c \in NodeIds :
                          /\ nodes[c].parent = n
                          /\ nodes[c].action = actions(nodes[n].state)[i]

WholeTreeCreated ==
    /\ UniqueCities
    /\ Len(cities) >= 3
    /\ status = "found"
    /\ Cardinality({n \in NodeIds : Len(nodes[n].state) = Len(cities)}) >= 2

=============================================================================
